---- MODULE Spec2Model ----
(***************************************************************************)
(* The SMS notification queue of savannah-backend: RedisJobQueue (the       *)
(* five containers kept in Redis) and the SMSService worker loop that       *)
(* claims jobs, calls the gateway and resolves the outcome into the store.  *)
(* Every Redis command or MULTI/EXEC pipeline is one atomic step; the       *)
(* steps of different workers interleave freely.                            *)
(***************************************************************************)
EXTENDS Integers, Sequences, FiniteSets, TLC

(* ---- bounds of the model ---- *)
MaxJobs == 2
MaxConcJobs == 1
NumWorkers == 2
MaxTime == 4
TicksPerSec == 2
MaxRetryLimit == 3
RetryDelaySecs == 1
MaxOrders == 2

Ids == 1..MaxJobs
ConcIds == 1..MaxConcJobs
Workers == 1..NumWorkers
NoJob == 0
Absent == -1

VARIABLES
  now,          \* time.Now(), in ticks (TicksPerSec ticks to the second)
  RetryLimit,   \* s.config.RetryLimit (SMS_RETRY_LIMIT)
  pendingQ,     \* sorted set sms_jobs:pending   : id -> score, or Absent
  retryQ,       \* sorted set sms_jobs:retry     : id -> score, or Absent
  processing,   \* set sms_jobs:processing
  completed,    \* set sms_jobs:completed
  failed,       \* set sms_jobs:failed
  data,         \* keys sms_job:<id> : the serialized SMSJob, or NoData
  ttl,          \* the expiry set on each sms_job:<id> key: "", "24h" or "7d"
  stats,        \* counters sms_stats:pending / sent / failed
  errorKey,     \* keys error:<id> : the stored error message, "" when unset
  pc,           \* each worker's position in ProcessSMSJobs / processSMSJob
  jobID,        \* each worker's results[0] inside Dequeue
  job,          \* each worker's *SMSJob
  used,         \* the ids uuid.New() has handed out
  sends,        \* history: sendSMS invocations per job
  fails,        \* history: sendSMS invocations per job answered by an error
  oks,          \* history: sendSMS invocations per job the gateway accepted
  credit,       \* history: ZADDs of the job into pending or retry, minus
                \*   the Dequeue calls that returned it
  pendOrder,    \* history: the members of pending, in the order of their ZADD
  retryOrder,   \* history: the members of retry, in the order of their ZADD
  cancelled,    \* ctx.Done() of the worker's context is closed
  getStatus,    \* a GetJobStatus call: its position, its jobID, its answer
  orders,       \* the rows orderRepo.Create has stored
  response      \* the HTTP status CreateOrder answered last, 0 before any

vars == <<now, RetryLimit, pendingQ, retryQ, processing, completed, failed,
          data, ttl, stats, errorKey, pc, jobID, job, used, sends, fails,
          oks, credit, pendOrder, retryOrder, cancelled, getStatus, orders,
          response>>

\* the configuration and what surrounds the queue and its workers
envVars == <<RetryLimit, cancelled, getStatus, orders, response>>
storeVars == <<pendingQ, retryQ, processing, completed, failed, data, ttl, stats, errorKey>>
workerVars == <<pc, jobID, job>>
histVars == <<sends, fails, oks, credit, pendOrder, retryOrder>>

(* ---- the job record ---- *)
NoData == [id |-> NoJob, status |-> "", attempts |-> 0, maxAttempts |-> 0,
           lastError |-> "", createdAt |-> 0, lastAttempt |-> 0,
           scheduledFor |-> 0]

\* no GetJobStatus call is under way and none has answered
NoCall == [pc |-> "idle", id |-> NoJob, result |-> "", known |-> FALSE]

\* a value under sms_job:<id> that json.Unmarshal rejects
Garbled == [NoData EXCEPT !.status = "garbled"]

\* time.Time.Unix(): whole seconds, the fraction dropped
Unix(t) == t \div TicksPerSec

\* s.config.RetryDelay, in ticks
RetryDelay == RetryDelaySecs * TicksPerSec

\* SMSJob built by QueueSMS
NewJob(id, t, limit) ==
  [id |-> id, status |-> "pending", attempts |-> 0, maxAttempts |-> limit,
   lastError |-> "", createdAt |-> t, lastAttempt |-> 0, scheduledFor |-> t]

(* ---- Redis commands ---- *)
Members(q) == {i \in Ids : q[i] # Absent}

\* ZRANGEBYSCORE q 0 max LIMIT 0 1: the members with score <= max in the
\* sorted set's order, which is by score and, for equal scores, by member.
InRange(q, max) == {i \in Members(q) : q[i] >= 0 /\ q[i] <= max}

ZRangeByScore(q, max) ==
  IF InRange(q, max) = {} THEN NoJob
  ELSE CHOOSE i \in InRange(q, max) :
         \A k \in InRange(q, max) : q[i] < q[k] \/ (q[i] = q[k] /\ i <= k)

\* a sequence without the member id
Without(seq, id) == SelectSeq(seq, LAMBDA x : x # id)

\* insertion order after ZADD: a new member goes last, a member that is
\* already there keeps its place
Inserted(seq, id) ==
  IF \E k \in 1..Len(seq) : seq[k] = id THEN seq ELSE Append(seq, id)

Init ==
  /\ now = 0
  /\ RetryLimit \in 0..MaxRetryLimit
  /\ pendingQ = [i \in Ids |-> Absent]
  /\ retryQ = [i \in Ids |-> Absent]
  /\ processing = {}
  /\ completed = {}
  /\ failed = {}
  /\ data = [i \in Ids |-> NoData]
  /\ ttl = [i \in Ids |-> ""]
  /\ stats = [pending |-> 0, sent |-> 0, failed |-> 0]
  /\ errorKey = [i \in Ids |-> ""]
  /\ pc = [w \in Workers |-> "loop"]
  /\ jobID = [w \in Workers |-> NoJob]
  /\ job = [w \in Workers |-> NoData]
  /\ used = {}
  /\ sends = [i \in Ids |-> 0]
  /\ fails = [i \in Ids |-> 0]
  /\ oks = [i \in Ids |-> 0]
  /\ credit = [i \in Ids |-> 0]
  /\ pendOrder = << >>
  /\ retryOrder = << >>
  /\ cancelled = FALSE
  /\ getStatus = NoCall
  /\ orders = 0
  /\ response = 0

\* the clock advances
Tick ==
  /\ now < MaxTime
  /\ now' = now + 1
  /\ UNCHANGED <<envVars, storeVars, workerVars, used, histVars>>

(* ---- the producer ---- *)

\* QueueSMS + RedisJobQueue.Enqueue: a fresh uuid, the job record, and one
\* MULTI/EXEC of SET (24 h), ZADD pending, INCR sms_stats:pending. ids are
\* the uuids the producers may still draw.
QueueSMS(ids) ==
  \E id \in ids \ used :
    /\ used' = used \cup {id}
    /\ data' = [data EXCEPT ![id] = NewJob(id, now, RetryLimit)]
    /\ ttl' = [ttl EXCEPT ![id] = "24h"]
    /\ pendingQ' = [pendingQ EXCEPT ![id] = Unix(now)]
    /\ stats' = [stats EXCEPT !.pending = @ + 1]
    /\ credit' = [credit EXCEPT ![id] = @ + 1]
    /\ pendOrder' = Inserted(pendOrder, id)
    /\ UNCHANGED <<now, envVars, retryQ, processing, completed, failed,
                   errorKey, workerVars, sends, fails, oks, retryOrder>>

(* ---- RedisJobQueue.Dequeue ---- *)

\* ProcessSMSJobs takes the default branch of its select (ctx.Done() is not
\* ready) and calls Dequeue, first command: ZRANGEBYSCORE on pending. An empty
\* result sends the call on to dequeueFromRetry; otherwise results[0] is the
\* job to move.
DequeueRead(w) ==
  /\ pc[w] = "loop"
  /\ ~cancelled
  /\ LET id == ZRangeByScore(pendingQ, Unix(now)) IN
       /\ jobID' = [jobID EXCEPT ![w] = id]
       /\ pc' = [pc EXCEPT ![w] = IF id = NoJob THEN "retry_read" ELSE "move_pending"]
  /\ UNCHANGED <<now, envVars, storeVars, job, used, histVars>>

\* dequeueFromRetry, first command: ZRANGEBYSCORE on retry. An empty result
\* returns (nil, nil) and the loop sleeps.
DequeueRetryRead(w) ==
  /\ pc[w] = "retry_read"
  /\ LET id == ZRangeByScore(retryQ, Unix(now)) IN
       /\ jobID' = [jobID EXCEPT ![w] = id]
       /\ pc' = [pc EXCEPT ![w] = IF id = NoJob THEN "loop" ELSE "move_retry"]
  /\ UNCHANGED <<now, envVars, storeVars, job, used, histVars>>

\* Dequeue: MULTI/EXEC of ZREM pending, SADD processing, DECR sms_stats:pending
MovePending(w) ==
  /\ pc[w] = "move_pending"
  /\ pendingQ' = [pendingQ EXCEPT ![jobID[w]] = Absent]
  /\ processing' = processing \cup {jobID[w]}
  /\ stats' = [stats EXCEPT !.pending = @ - 1]
  /\ pendOrder' = Without(pendOrder, jobID[w])
  /\ pc' = [pc EXCEPT ![w] = "fetch"]
  /\ UNCHANGED <<now, envVars, retryQ, completed, failed, data, ttl,
                 errorKey, jobID, job, used, sends, fails, oks, credit, retryOrder>>

\* dequeueFromRetry: MULTI/EXEC of ZREM retry, SADD processing
MoveRetry(w) ==
  /\ pc[w] = "move_retry"
  /\ retryQ' = [retryQ EXCEPT ![jobID[w]] = Absent]
  /\ processing' = processing \cup {jobID[w]}
  /\ retryOrder' = Without(retryOrder, jobID[w])
  /\ pc' = [pc EXCEPT ![w] = "fetch"]
  /\ UNCHANGED <<now, envVars, pendingQ, completed, failed, data, ttl,
                 stats, errorKey, jobID, job, used, sends, fails, oks, credit,
                 pendOrder>>

\* Dequeue / dequeueFromRetry: GET sms_job:<id>. A missing key is cleaned up
\* with SREM processing and reported as an error; a value that json.Unmarshal
\* rejects is reported as an error and nothing else is done; otherwise the
\* job is returned to ProcessSMSJobs, which calls processSMSJob.
FetchJob(w) ==
  /\ pc[w] = "fetch"
  /\ IF data[jobID[w]] = NoData
     THEN /\ processing' = processing \ {jobID[w]}
          /\ pc' = [pc EXCEPT ![w] = "loop"]
          /\ UNCHANGED <<job, credit>>
     ELSE IF data[jobID[w]] = Garbled
     THEN /\ pc' = [pc EXCEPT ![w] = "loop"]
          /\ UNCHANGED <<job, credit, processing>>
     ELSE /\ job' = [job EXCEPT ![w] = data[jobID[w]]]
          /\ credit' = [credit EXCEPT ![jobID[w]] = @ - 1]
          /\ pc' = [pc EXCEPT ![w] = "send"]
          /\ UNCHANGED processing
  /\ jobID' = [jobID EXCEPT ![w] = NoJob]
  /\ UNCHANGED <<now, envVars, pendingQ, retryQ, completed, failed, data,
                 ttl, stats, errorKey, used, sends, fails, oks, pendOrder,
                 retryOrder>>

(* ---- SMSService.processSMSJob ---- *)

\* what sendSMS can report: a transport error (err != nil), an accepted
\* recipient status code (100 or 101), any other recipient status code, or a
\* response that lists no recipient
Outcomes == {"transport", "ok", "api", "empty"}

\* the retry test off by one: attempts <= maxAttempts
ShouldRetryInclusive(j) == j.attempts <= j.maxAttempts

\* job.Attempts < job.MaxAttempts: the test made before RetryJob
ShouldRetry(j) == j.attempts < j.maxAttempts

\* a delay that does not grow with the attempts
BackoffFlat(j) == RetryDelay

\* time.Duration(job.Attempts*job.Attempts) * s.config.RetryDelay
Backoff(j) == (j.attempts * j.attempts) * RetryDelay

\* the increment of Attempts left out
NotAttempted(j) == j

\* job.Attempts++
Attempted(j) == [j EXCEPT !.attempts = @ + 1]

\* the job as processSMSJob holds it after sendSMS has answered
AfterSend(j, out) ==
  LET j1 == [Attempted(j) EXCEPT !.lastAttempt = now] IN
    CASE out = "transport" ->
           IF ShouldRetry(j1) THEN [j1 EXCEPT !.lastError = "transport"]
           ELSE [j1 EXCEPT !.lastError = "transport", !.status = "failed"]
      [] out = "ok" -> [j1 EXCEPT !.status = "sent"]
      [] out = "api" ->
           IF ShouldRetry(j1) THEN [j1 EXCEPT !.lastError = "api"]
           ELSE [j1 EXCEPT !.lastError = "api", !.status = "failed"]
      [] OTHER -> j1

\* the store call processSMSJob makes next
AfterSendPc(j, out) ==
  LET j1 == Attempted(j) IN
    CASE out = "transport" -> IF ShouldRetry(j1) THEN "retry_update" ELSE "mark_failed_err"
      [] out = "ok" -> "mark_completed"
      [] out = "api" -> IF ShouldRetry(j1) THEN "retry_update" ELSE "mark_failed_api"
      [] OTHER -> "update"

\* what sendSMS can report now: the request carries ctx, and httpClient.Do
\* gives up with an error once ctx is cancelled
Answers == IF cancelled THEN {"transport"} ELSE Outcomes

\* processSMSJob up to the return of sendSMS: Attempts++, LastAttempt = now,
\* one gateway call, and the branch on its answer
Send(w) ==
  /\ pc[w] = "send"
  /\ \E out \in Answers :
       /\ job' = [job EXCEPT ![w] = AfterSend(job[w], out)]
       /\ pc' = [pc EXCEPT ![w] = AfterSendPc(job[w], out)]
       /\ sends' = [sends EXCEPT ![job[w].id] = @ + 1]
       /\ fails' = [fails EXCEPT ![job[w].id] = IF out \in {"transport", "api"} THEN @ + 1 ELSE @]
       /\ oks' = [oks EXCEPT ![job[w].id] = IF out = "ok" THEN @ + 1 ELSE @]
  /\ UNCHANGED <<now, envVars, storeVars, jobID, used, credit, pendOrder, retryOrder>>

\* RetryJob, first half: ScheduledFor = now + delay, then UpdateJob (SET, 24 h)
RetryUpdate(w) ==
  /\ pc[w] = "retry_update"
  /\ LET j == [job[w] EXCEPT !.scheduledFor = now + Backoff(job[w])] IN
       /\ job' = [job EXCEPT ![w] = j]
       /\ data' = [data EXCEPT ![j.id] = j]
       /\ ttl' = [ttl EXCEPT ![j.id] = "24h"]
  /\ pc' = [pc EXCEPT ![w] = "retry_move"]
  /\ UNCHANGED <<now, envVars, pendingQ, retryQ, processing, completed,
                 failed, stats, errorKey, jobID, used, histVars>>

\* RetryJob, second half: MULTI/EXEC of SREM processing, ZADD retry; the
\* call returns and the worker's job goes out of scope
RetryMove(w) ==
  /\ pc[w] = "retry_move"
  /\ processing' = processing \ {job[w].id}
  /\ retryQ' = [retryQ EXCEPT ![job[w].id] = Unix(job[w].scheduledFor)]
  /\ credit' = [credit EXCEPT ![job[w].id] = @ + 1]
  /\ retryOrder' = Inserted(retryOrder, job[w].id)
  /\ pc' = [pc EXCEPT ![w] = "loop"]
  /\ job' = [job EXCEPT ![w] = NoData]
  /\ UNCHANGED <<now, envVars, pendingQ, completed, failed, data, ttl,
                 stats, errorKey, jobID, used, sends, fails, oks, pendOrder>>

\* MarkFailed: MULTI/EXEC of SREM processing, SADD failed, INCR
\* sms_stats:failed, SET error:<id>, EXPIRE sms_job:<id> 7 d
MarkFailed(id, msg) ==
  /\ processing' = processing \ {id}
  /\ failed' = failed \cup {id}
  /\ stats' = [stats EXCEPT !.failed = @ + 1]
  /\ errorKey' = [errorKey EXCEPT ![id] = msg]
  /\ ttl' = [ttl EXCEPT ![id] = IF data[id] = NoData THEN @ ELSE "7d"]

\* processSMSJob, sendSMS returned an error and the attempts are used up:
\* MarkFailed, then return nil
MarkFailedErr(w) ==
  /\ pc[w] = "mark_failed_err"
  /\ MarkFailed(job[w].id, job[w].lastError)
  /\ pc' = [pc EXCEPT ![w] = "loop"]
  /\ job' = [job EXCEPT ![w] = NoData]
  /\ UNCHANGED <<now, envVars, pendingQ, retryQ, completed, data, jobID,
                 used, histVars>>

\* processSMSJob, the gateway answered an error code and the attempts are
\* used up: MarkFailed, then on to the closing UpdateJob
MarkFailedAPI(w) ==
  /\ pc[w] = "mark_failed_api"
  /\ MarkFailed(job[w].id, job[w].lastError)
  /\ pc' = [pc EXCEPT ![w] = "update"]
  /\ UNCHANGED <<now, envVars, pendingQ, retryQ, completed, data, jobID,
                 job, used, histVars>>

\* MarkCompleted: MULTI/EXEC of SREM processing, SADD completed, INCR
\* sms_stats:sent, EXPIRE sms_job:<id> 7 d; then on to the closing UpdateJob
MarkCompleted(w) ==
  /\ pc[w] = "mark_completed"
  /\ processing' = processing \ {job[w].id}
  /\ completed' = completed \cup {job[w].id}
  /\ stats' = [stats EXCEPT !.sent = @ + 1]
  /\ ttl' = [ttl EXCEPT ![job[w].id] = IF data[job[w].id] = NoData THEN @ ELSE "7d"]
  /\ pc' = [pc EXCEPT ![w] = "update"]
  /\ UNCHANGED <<now, envVars, pendingQ, retryQ, failed, data, errorKey,
                 jobID, job, used, histVars>>

\* the UpdateJob that ends processSMSJob: SET sms_job:<id> (24 h); the call
\* returns and the worker's job goes out of scope
UpdateJob(w) ==
  /\ pc[w] = "update"
  /\ data' = [data EXCEPT ![job[w].id] = job[w]]
  /\ ttl' = [ttl EXCEPT ![job[w].id] = "24h"]
  /\ pc' = [pc EXCEPT ![w] = "loop"]
  /\ job' = [job EXCEPT ![w] = NoData]
  /\ UNCHANGED <<now, envVars, pendingQ, retryQ, processing, completed,
                 failed, stats, errorKey, jobID, used, histVars>>

(* ---- the system ---- *)

Worker(w) ==
  \/ DequeueRead(w) \/ DequeueRetryRead(w) \/ MovePending(w) \/ MoveRetry(w)
  \/ FetchJob(w) \/ Send(w) \/ RetryUpdate(w) \/ RetryMove(w)
  \/ MarkFailedErr(w) \/ MarkFailedAPI(w) \/ MarkCompleted(w) \/ UpdateJob(w)

\* several dispatch workers on one store
Next == Tick \/ QueueSMS(ConcIds) \/ \E w \in Workers : Worker(w)

Spec == Init /\ [][Next]_vars

\* one dispatch worker, as cmd/server starts it
NextOne == Tick \/ QueueSMS(Ids) \/ Worker(1)

SpecOne == Init /\ [][NextOne]_vars

(* ---- a stream of submissions without end ---- *)

\* uuid.New() never runs out of ids, while the model names MaxJobs jobs at a
\* time: a job that is in Completed or Failed and that no worker holds is
\* dropped from the model, with its share of the counters, and its name
\* stands for a fresh uuid from then on.
Forget ==
  \E id \in completed \cup failed :
    /\ \A w \in Workers : jobID[w] # id /\ job[w].id # id
    /\ pendingQ[id] = Absent /\ retryQ[id] = Absent /\ id \notin processing
    /\ used' = used \ {id}
    /\ completed' = completed \ {id}
    /\ failed' = failed \ {id}
    /\ stats' = [stats EXCEPT !.sent = IF id \in completed THEN @ - 1 ELSE @,
                              !.failed = IF id \in failed THEN @ - 1 ELSE @]
    /\ data' = [data EXCEPT ![id] = NoData]
    /\ ttl' = [ttl EXCEPT ![id] = ""]
    /\ errorKey' = [errorKey EXCEPT ![id] = ""]
    /\ sends' = [sends EXCEPT ![id] = 0]
    /\ fails' = [fails EXCEPT ![id] = 0]
    /\ oks' = [oks EXCEPT ![id] = 0]
    /\ credit' = [credit EXCEPT ![id] = 0]
    /\ UNCHANGED <<now, envVars, pendingQ, retryQ, processing, workerVars,
                   pendOrder, retryOrder>>

NextFlood == Tick \/ QueueSMS(Ids) \/ Worker(1) \/ Forget

\* one dispatch worker that is scheduled fairly (its loop never stops taking
\* steps), and producers that may submit for ever
SpecFlood == Init /\ [][NextFlood]_vars /\ WF_vars(Worker(1))

\* one dispatch worker that is scheduled fairly, a clock that advances, and a
\* gateway that answers every Send (Send is a step of the worker)
SpecOneFair == SpecOne /\ WF_vars(Worker(1)) /\ WF_vars(Tick)

(* ---- store calls that fail, and cancellation ---- *)

\* the positions of a worker at which its next step is a store command other
\* than the first read of Dequeue
StoreCalls == {"retry_read", "move_pending", "move_retry", "fetch",
               "retry_update", "retry_move", "mark_failed_err",
               "mark_failed_api", "mark_completed", "update"}

\* The store command the worker is about to run returns an error (other than
\* redis.Nil) and changes nothing. Dequeue, RetryJob and the closing UpdateJob
\* hand the error up, ProcessSMSJobs logs it and goes round its loop; the
\* results of MarkFailed and MarkCompleted are dropped and processSMSJob goes
\* on as if they had succeeded.
StoreError(w) ==
  /\ pc[w] \in StoreCalls
  /\ IF pc[w] \in {"mark_failed_api", "mark_completed"}
     THEN /\ pc' = [pc EXCEPT ![w] = "update"]
          /\ UNCHANGED job
     ELSE /\ pc' = [pc EXCEPT ![w] = "loop"]
          /\ job' = [job EXCEPT ![w] = NoData]
  /\ jobID' = [jobID EXCEPT ![w] = NoJob]
  /\ UNCHANGED <<now, envVars, storeVars, used, histVars>>

\* the worker's context is cancelled
Cancel ==
  /\ ~cancelled
  /\ cancelled' = TRUE
  /\ UNCHANGED <<now, RetryLimit, getStatus, orders, response, storeVars,
                 workerVars, used, histVars>>

\* a store command called with the cancelled context returns ctx.Err()
CtxError(w) == cancelled /\ StoreError(w)

\* ProcessSMSJobs: case <-ctx.Done(): return ctx.Err()
Return(w) ==
  /\ pc[w] = "loop"
  /\ cancelled
  /\ pc' = [pc EXCEPT ![w] = "done"]
  /\ UNCHANGED <<now, envVars, storeVars, jobID, job, used, histVars>>

NextCancel ==
  Tick \/ QueueSMS(Ids) \/ Worker(1) \/ Cancel \/ CtxError(1) \/ Return(1)

\* one dispatch worker whose context may be cancelled at any moment
SpecCancel == Init /\ [][NextCancel]_vars

NextStore == Tick \/ QueueSMS(Ids) \/ Worker(1) \/ StoreError(1)

\* one dispatch worker on a store that is unreachable now and then: any
\* single store command may fail, the next one may succeed again
SpecStore == Init /\ [][NextStore]_vars

(* ---- a worker that stops for good ---- *)

\* the positions of a worker between the pipeline of Dequeue that moved a job
\* to Processing and the call of RetryJob, MarkFailed or MarkCompleted
Claimed == {"fetch", "send", "retry_update", "mark_failed_err",
            "mark_failed_api", "mark_completed"}

\* the worker's process dies there; what it held stays as it was
Crash(w) ==
  /\ pc[w] \in Claimed
  /\ pc' = [pc EXCEPT ![w] = "crashed"]
  /\ UNCHANGED <<now, envVars, storeVars, jobID, job, used, histVars>>

NextCrash == Next \/ Crash(1)

\* several dispatch workers on one store, one of which may die
SpecCrash == Init /\ [][NextCrash]_vars

(* ---- job data that cannot be read back ---- *)

\* the value stored for a job that waits in Pending or Retrying is damaged
Corrupt ==
  \E id \in Members(pendingQ) \cup Members(retryQ) :
    /\ data[id] # NoData /\ data[id] # Garbled
    /\ data' = [data EXCEPT ![id] = Garbled]
    /\ UNCHANGED <<now, envVars, pendingQ, retryQ, processing, completed,
                   failed, ttl, stats, errorKey, workerVars, used, histVars>>

NextCorrupt == Tick \/ QueueSMS(Ids) \/ Worker(1) \/ Corrupt

\* one dispatch worker on a store some of whose job records get damaged
SpecCorrupt == Init /\ [][NextCorrupt]_vars

(* ---- job data that has expired ---- *)

\* the TTL of a job record runs out and the store drops the key
Expire ==
  \E id \in used :
    /\ data[id] # NoData
    /\ data' = [data EXCEPT ![id] = NoData]
    /\ ttl' = [ttl EXCEPT ![id] = ""]
    /\ UNCHANGED <<now, envVars, pendingQ, retryQ, processing, completed,
                   failed, stats, errorKey, workerVars, used, histVars>>

NextExpire ==
  Tick \/ QueueSMS(ConcIds) \/ (\E w \in Workers : Worker(w)) \/ Expire

\* several dispatch workers on a store whose job records may expire
SpecExpire == Init /\ [][NextExpire]_vars

(* ---- RedisJobQueue.GetJobStatus ---- *)

\* the five lookups of GetJobStatus, in the order it makes them
Lookups == <<"pending", "retry", "processing", "completed", "failed">>

\* ZSCORE / SISMEMBER: the container holds the id
Holds(c, id) ==
  CASE c = "pending" -> pendingQ[id] # Absent
    [] c = "retry" -> retryQ[id] # Absent
    [] c = "processing" -> id \in processing
    [] c = "completed" -> id \in completed
    [] OTHER -> id \in failed

\* a caller asks for the status of a job id. known (history): the job had
\* been submitted when the call began.
GetJobStatusCall ==
  /\ getStatus.pc = "idle"
  /\ \E id \in ConcIds :
       getStatus' = [pc |-> "pending", id |-> id, result |-> "",
                     known |-> id \in used]
  /\ UNCHANGED <<now, RetryLimit, cancelled, orders, response, storeVars,
                 workerVars, used, histVars>>

\* GetJobStatus, one lookup: a hit returns the container's name, a miss goes
\* on to the next lookup, and a miss in the last one returns "unknown"
GetJobStatusLookup ==
  /\ getStatus.pc # "idle"
  /\ LET k == CHOOSE i \in 1..Len(Lookups) : Lookups[i] = getStatus.pc IN
       getStatus' =
         IF Holds(getStatus.pc, getStatus.id)
         THEN [getStatus EXCEPT !.pc = "idle", !.result = getStatus.pc]
         ELSE IF k < Len(Lookups)
         THEN [getStatus EXCEPT !.pc = Lookups[k + 1]]
         ELSE [getStatus EXCEPT !.pc = "idle", !.result = "unknown"]
  /\ UNCHANGED <<now, RetryLimit, cancelled, orders, response, storeVars,
                 workerVars, used, histVars>>

NextStatus ==
  Tick \/ QueueSMS(ConcIds) \/ Worker(1) \/ GetJobStatusCall \/ GetJobStatusLookup

\* status queries next to the producers and the one dispatch worker
SpecStatus == Init /\ [][NextStatus]_vars

(* ---- OrderHandler.CreateOrder ---- *)

\* how a POST /v1/orders fares before the SMS is queued: the body does not
\* bind, the customer is not found, the customer lookup fails, orderRepo.Create
\* fails, or the order is stored
Requests == {"bad_json", "no_customer", "lookup_error", "create_error", "stored"}

\* the handler failing the request when the SMS could not be queued
ResponseStrict(req, queueErr) ==
  CASE req \in {"bad_json", "no_customer"} -> 400
    [] req \in {"lookup_error", "create_error"} -> 500
    [] OTHER -> IF queueErr THEN 500 ELSE 201

\* the HTTP status CreateOrder answers; queueErr: QueueSMS returned an error
ResponseOf(req, queueErr) ==
  CASE req \in {"bad_json", "no_customer"} -> 400
    [] req \in {"lookup_error", "create_error"} -> 500
    [] OTHER -> 201

\* CreateOrder, the whole handler. phone: the customer has a phone number;
\* storeOk: the MULTI/EXEC of Enqueue succeeds. QueueSMS is only reached once
\* the order is stored, and its error is logged and dropped.
CreateOrder ==
  \E req \in Requests, phone \in BOOLEAN, storeOk \in BOOLEAN :
    LET queued == req = "stored" /\ phone /\ storeOk IN
      /\ req = "stored" => orders < MaxOrders
      /\ orders' = IF req = "stored" THEN orders + 1 ELSE orders
      /\ response' = ResponseOf(req, req = "stored" /\ ~queued)
      /\ IF queued
         THEN \E id \in ConcIds \ used :
                /\ used' = used \cup {id}
                /\ data' = [data EXCEPT ![id] = NewJob(id, now, RetryLimit)]
                /\ ttl' = [ttl EXCEPT ![id] = "24h"]
                /\ pendingQ' = [pendingQ EXCEPT ![id] = Unix(now)]
                /\ stats' = [stats EXCEPT !.pending = @ + 1]
                /\ credit' = [credit EXCEPT ![id] = @ + 1]
                /\ pendOrder' = Inserted(pendOrder, id)
         ELSE UNCHANGED <<used, data, ttl, pendingQ, stats, credit, pendOrder>>
      /\ UNCHANGED <<now, RetryLimit, cancelled, getStatus, retryQ, processing,
                     completed, failed, errorKey, workerVars, sends, fails,
                     oks, retryOrder>>

NextOrders == Tick \/ CreateOrder \/ Worker(1)

\* the order API in front of the queue and its one dispatch worker
SpecOrders == Init /\ [][NextOrders]_vars

(* ---- what observers see ---- *)

\* GetStats: ZCARD / SCARD of the five containers and the sent counter
GetStats ==
  [pending |-> Cardinality(Members(pendingQ)),
   retry |-> Cardinality(Members(retryQ)),
   processing |-> Cardinality(processing),
   completed |-> Cardinality(completed),
   failed |-> Cardinality(failed),
   sent |-> stats.sent]

\* GetSMSJobStats, which the admin /stats route serves: it does not ask the
\* job queue and returns these numbers
GetSMSJobStats == [pending |-> 0, sent |-> 0, failed |-> 0]

\* the containers that hold a job id
Containers(id) ==
  (IF pendingQ[id] # Absent THEN {"pending"} ELSE {}) \cup
  (IF retryQ[id] # Absent THEN {"retry"} ELSE {}) \cup
  (IF id \in processing THEN {"processing"} ELSE {}) \cup
  (IF id \in completed THEN {"completed"} ELSE {}) \cup
  (IF id \in failed THEN {"failed"} ELSE {})

\* no Dequeue or processSMSJob call is at work on the job
Settled(id) == \A w \in Workers : jobID[w] # id /\ job[w].id # id

\* place of a member in an insertion order
Place(seq, id) == CHOOSE k \in 1..Len(seq) : seq[k] = id

(* ---- the claims ---- *)

\* C1: a job id that has entered Pending or Retrying once is returned by at
\* most one Dequeue call: the Dequeue calls that returned a job never
\* outnumber its entries into Pending or Retrying.
C1_ClaimedOnce == \A id \in Ids : credit[id] >= 0

\* C2: between store transactions every submitted job id is a member of
\* exactly one of the five containers.
C2_ExactlyOneContainer == \A id \in used : Cardinality(Containers(id)) = 1

\* C3: Completed and Failed are terminal: a job id that is in Completed or
\* Failed is not added to Processing, to Retrying or to the other terminal
\* container by any step, and no step is a gateway Send for it.
C3_Terminal ==
  [][\A id \in Ids :
       (id \in completed \cup failed) =>
          /\ (id \in processing' => id \in processing)
          /\ (retryQ'[id] # Absent => retryQ[id] # Absent)
          /\ (id \in completed' => id \in completed)
          /\ (id \in failed' => id \in failed)
          /\ sends'[id] = sends[id]]_vars

\* C4: the stored attempts of a job never decreases, and whenever no worker
\* is at work on the job it equals the number of sendSMS invocations made for
\* the job (checked for jobs with maxAttempts >= 1).
C4_AttemptsCountSends ==
  [][\A id \in Ids :
       /\ data'[id].attempts >= data[id].attempts
       /\ (id \in used' /\ Settled(id)' /\ data'[id].maxAttempts >= 1)
            => data'[id].attempts = sends'[id]]_vars

\* C5: whenever a job is in Failed, its stored attempts is at most its
\* maxAttempts, for every RetryLimit QueueSMS can put on a job.
C5_FailedWithinMax ==
  \A id \in failed : data[id].attempts <= data[id].maxAttempts

\* C6: a job with maxAttempts >= 1 whose every Send fails is sent at most
\* maxAttempts times, and once maxAttempts Sends have failed and the worker is
\* done with it, it is in Failed and not in Retrying, its stored record has
\* attempts = maxAttempts and a non-empty lastError, and GetStats counts it
\* as failed.
C6_ExhaustedIsFailed ==
  \A id \in used :
    (data[id].maxAttempts >= 1 /\ fails[id] = sends[id]) =>
      /\ sends[id] <= data[id].maxAttempts
      /\ (sends[id] = data[id].maxAttempts /\ Settled(id)) =>
           /\ Containers(id) = {"failed"}
           /\ data[id].attempts = data[id].maxAttempts
           /\ data[id].lastError # ""
           /\ GetStats.failed >= 1

\* the end of the scenario of C7: k < maxAttempts Sends failed, the next one
\* was accepted, and the worker is done with the job
C7_Delivered(id) ==
  /\ id \in used
  /\ oks[id] = 1
  /\ sends[id] = fails[id] + 1
  /\ fails[id] < data[id].maxAttempts
  /\ Settled(id)

C8_NoRetryWhenExhausted ==
  \A w \in Workers :
    /\ pc[w] \in {"retry_update", "retry_move"} =>
         job[w].attempts < job[w].maxAttempts
    /\ (pc[w] \in {"retry_update", "mark_failed_err", "mark_failed_api"}
          /\ job[w].attempts >= job[w].maxAttempts) =>
         \/ pc[w] = "mark_failed_err" /\ job[w].lastError = "transport"
         \/ pc[w] = "mark_failed_api" /\ job[w].lastError = "api"

\* C8 witness: the last allowed attempt of a retried job has failed, once
\* with a gateway error code and once with a transport error
C8_Witness ==
  \E w, v \in Workers :
    /\ pc[w] = "mark_failed_api" /\ job[w].attempts = job[w].maxAttempts
    /\ job[w].maxAttempts >= 2
    /\ pc[v] \in {"mark_failed_err", "mark_failed_api"}

\* the score under which a job waits in Pending or Retrying
Score(id) == IF pendingQ[id] # Absent THEN pendingQ[id] ELSE retryQ[id]

\* the jobs of Pending and Retrying that are due
Eligible == InRange(pendingQ, Unix(now)) \cup InRange(retryQ, Unix(now))

\* C9: the job a Dequeue call picks has the smallest scheduledFor (score)
\* among all due jobs of Pending and Retrying together. (A pick from Retrying
\* is compared with Retrying alone: the same call has just found no due job
\* in Pending.)
C9_EarliestFirst ==
  [][\A w \in Workers :
       /\ (pc[w] = "loop" /\ jobID'[w] # NoJob) =>
            \A k \in Eligible : Score(jobID'[w]) <= Score(k)
       /\ (pc[w] = "retry_read" /\ jobID'[w] # NoJob) =>
            \A k \in InRange(retryQ, Unix(now)) : retryQ[jobID'[w]] <= retryQ[k]]_vars

\* C10: among the due jobs of one container with equal score, a Dequeue call
\* picks the one that was enqueued first.
C10_FifoOnTies ==
  [][\A w \in Workers :
       /\ (pc[w] = "loop" /\ jobID'[w] # NoJob) =>
            \A k \in InRange(pendingQ, Unix(now)) :
               pendingQ[k] = pendingQ[jobID'[w]] =>
                  Place(pendOrder, jobID'[w]) <= Place(pendOrder, k)
       /\ (pc[w] = "retry_read" /\ jobID'[w] # NoJob) =>
            \A k \in InRange(retryQ, Unix(now)) :
               retryQ[k] = retryQ[jobID'[w]] =>
                  Place(retryOrder, jobID'[w]) <= Place(retryOrder, k)]_vars

\* a job waits in Retrying and its scheduled time has come
RetryDue(id) == retryQ[id] # Absent /\ retryQ[id] <= Unix(now)

\* C11: under a fair worker a job in Retrying whose scheduled time has come
\* is eventually claimed (it leaves Retrying), also when producers keep
\* Pending supplied with due jobs.
C11_RetryNotStarved ==
  \A id \in Ids : RetryDue(id) ~> (retryQ[id] = Absent)

\* C12: no step moves a job into Processing, and no step sends it to the
\* gateway, at a time earlier than the scheduledFor of its stored record.
C12_NotBeforeScheduled ==
  [][\A w \in Workers :
       /\ (pc[w] \in {"move_pending", "move_retry"} /\ pc'[w] = "fetch") =>
            data[jobID[w]].scheduledFor <= now
       /\ (pc[w] = "send" /\ pc'[w] # "send") =>
            data[job[w].id].scheduledFor <= now]_vars

BeyondHorizon(id) == retryQ[id] # Absent /\ retryQ[id] > Unix(MaxTime)

\* C14: with a fair worker and a gateway that answers every Send, every
\* submitted job eventually is in Completed or Failed (or waits in Retrying
\* for an instant later than the model's clock runs).
C14_EventuallyResolved ==
  \A id \in Ids :
    (id \in used) ~> (id \in completed \cup failed \/ BeyondHorizon(id))

\* the jobs of a sorted set whose stored scheduledFor has come
DueIn(q) == {id \in Members(q) : data[id].scheduledFor <= now}

\* C15: a Dequeue call that finds no job with scheduledFor <= now in Pending
\* goes on to Retrying, and one that finds none in Retrying either returns
\* (nil, nil) to the loop; neither step picks a job or changes a container, a
\* counter or a job record.
C15_IdleDequeue ==
  [][\A w \in Workers :
       /\ (pc[w] = "loop" /\ DueIn(pendingQ) = {} /\ pc'[w] # "loop") =>
            /\ pc'[w] = "retry_read" /\ jobID'[w] = NoJob
            /\ UNCHANGED storeVars
       /\ (pc[w] = "retry_read" /\ DueIn(retryQ) = {} /\ pc'[w] # "retry_read") =>
            /\ pc'[w] = "loop" /\ jobID'[w] = NoJob
            /\ UNCHANGED storeVars]_vars

\* C16: a step that stores an order answers 201, whether QueueSMS queued a
\* job in that step or returned an error; no step removes an order, and 201
\* is answered by no request that stored none.
C16_OrderIndependentOfSMS ==
  [][/\ orders' >= orders
     /\ (orders' # orders) => (orders' = orders + 1 /\ response' = 201)
     /\ (response' # response /\ response' = 201) => orders' = orders + 1]_vars

\* C16 witness: an order was stored and answered 201 although QueueSMS
\* returned an error (no job was ever queued)
C16_Witness == orders >= 1 /\ used = {} /\ response = 201

\* the gateway answered every Send for the job with a recipient or an error
Answered(id) == sends[id] = fails[id] + oks[id]

\* C17: when ProcessSMSJobs has returned on cancellation, no job is left in
\* Processing (apart from jobs a Send of which was answered with no
\* recipient, the case of C14).
C17_NothingLeftOnReturn ==
  \A w \in Workers :
    pc[w] = "done" => \A id \in processing : ~Answered(id)

\* the positions of processSMSJob at which the next step is RetryJob,
\* MarkFailed, MarkCompleted or the closing UpdateJob
Transitions == {"retry_update", "retry_move", "mark_failed_err",
                "mark_failed_api", "mark_completed", "update"}

\* C18: a step of a worker that is resolving a job (RetryJob, MarkFailed,
\* MarkCompleted) either takes the job out of Processing or leaves the
\* worker holding the job, so that the store operation can be made again;
\* the worker never lets go of a job that is still in Processing. (Jobs
\* answered with no recipient, the case of C14, are left aside.)
C18_FailedTransitionKept ==
  [][\A w \in Workers :
       (pc[w] \in Transitions /\ job[w].id \in processing'
          /\ sends'[job[w].id] = fails'[job[w].id] + oks'[job[w].id])
            => job'[w].id = job[w].id]_vars

\* C19: a job whose stored data cannot be deserialized is not left in
\* Processing: it is in Processing only while the Dequeue call that claimed
\* it is still at work.
C19_MalformedNotStranded ==
  \A id \in Ids :
    (data[id] = Garbled /\ id \in processing) => \E w \in Workers : jobID[w] = id

\* C20: when a GetJobStatus call returns, an answer other than "unknown" is
\* the name of a container that holds the id, and "unknown" is answered only
\* for an id that was not yet submitted when the call began (with one worker
\* a submitted id is in a container at every moment).
C20_StatusIsContainer ==
  [][(getStatus.pc # "idle" /\ getStatus'.pc = "idle") =>
       /\ getStatus'.result # "unknown" =>
            getStatus'.result \in Containers(getStatus.id)
       /\ getStatus'.result = "unknown" => ~getStatus.known]_vars

\* no Dequeue and no processSMSJob call is under way
Quiescent == \A w \in Workers : pc[w] \in {"loop", "done"} /\ jobID[w] = NoJob

\* C21: whenever the system is quiescent, the statistics the admin endpoint
\* shows (GetSMSJobStats) equal the current counts: pending is the number of
\* jobs in Pending, sent the number of completed jobs, failed the number of
\* jobs in Failed.
C21_StatsShown ==
  Quiescent =>
    /\ GetSMSJobStats.pending = GetStats.pending
    /\ GetSMSJobStats.sent = GetStats.sent
    /\ GetSMSJobStats.failed = GetStats.failed

\* C22: a step that enqueues a job puts its id in Pending only, under a score
\* that is the instant of its scheduledFor, stores its record and adds one to
\* the pending counter, and touches no other job; a CreateOrder step whose
\* Enqueue fails (an order is stored, no job appears) leaves every container,
\* record and counter as it was.
C22_EnqueueFrame ==
  [][/\ \A id \in Ids :
          (id \notin used /\ id \in used') =>
             /\ Containers(id)' = {"pending"}
             /\ pendingQ'[id] * TicksPerSec = data'[id].scheduledFor
             /\ data'[id] # NoData /\ data'[id].id = id
             /\ stats' = [stats EXCEPT !.pending = @ + 1]
             /\ \A k \in Ids \ {id} :
                  Containers(k)' = Containers(k) /\ data'[k] = data[k]
     /\ (orders' # orders /\ used' = used) => UNCHANGED storeVars]_vars

\* C23: no job is enqueued while the configured RetryLimit is below 1, and
\* every job that is enqueued has maxAttempts >= 1, attempts = 0 and
\* scheduledFor equal to its creation time.
C23_ValidatedAtSubmission ==
  [][/\ RetryLimit < 1 => used' = used
     /\ \A id \in Ids :
          (id \notin used /\ id \in used') =>
             /\ data'[id].maxAttempts >= 1
             /\ data'[id].attempts = 0
             /\ data'[id].scheduledFor = data'[id].createdAt]_vars

\* every Send of the job so far has failed and no call is at work on it
AllFailed(id) == id \in used /\ sends[id] >= 1 /\ fails[id] = sends[id] /\ Settled(id)

\* C24: two jobs with the same maxAttempts that have both failed the same
\* number of Sends, whatever the kind of each failure (gateway error code or
\* transport error), are in the same container and have the same attempts
\* and, alike, a lastError in their stored records.
C24_SameHandling ==
  \A a, b \in Ids :
    (AllFailed(a) /\ AllFailed(b) /\ sends[a] = sends[b]
       /\ data[a].maxAttempts = data[b].maxAttempts) =>
      /\ Containers(a) = Containers(b)
      /\ data[a].attempts = data[b].attempts
      /\ (data[a].lastError = "") = (data[b].lastError = "")
      /\ data[a].status = data[b].status

\* C25: every step that writes the record of a submitted job (the UpdateJob
\* inside RetryJob and the UpdateJob that ends processSMSJob) is made while
\* the job id is in Processing and in no other container.
C25_WriteWhileProcessing ==
  [][\A w \in Workers :
       (pc[w] \in {"retry_update", "update"} /\ pc'[w] # pc[w]) =>
          Containers(job[w].id) = {"processing"}]_vars

\* the job a worker has claimed: results[0] inside Dequeue, job afterwards
Held(w) == IF jobID[w] # NoJob THEN jobID[w] ELSE job[w].id

\* C26: once a worker has stopped for good between the claim of a job and
\* its resolution, every later step leaves the job in Processing and out of
\* Completed and Failed, and no step makes another worker the holder of it.
C26_StrandedStays ==
  [][\A w \in Workers :
       pc[w] = "crashed" =>
          /\ Held(w) \in processing'
          /\ Held(w) \notin completed' \cup failed'
          /\ \A v \in Workers \ {w} :
               job'[v].id = Held(w) => job[v].id = Held(w)]_vars

\* C27: an id in Retrying has a stored record that carries the attempt that
\* caused the retry (attempts counted, lastError set, scheduledFor the score
\* of the id and not before lastAttempt plus the delay); and when the record
\* write of RetryJob fails, the id stays in Processing, is not in Retrying and
\* the record is as it was.
C27_RecordBeforeMove ==
  /\ [](\A id \in Ids : retryQ[id] # Absent =>
          /\ data[id] # NoData
          /\ data[id].attempts >= 1
          /\ data[id].lastError # ""
          /\ retryQ[id] = Unix(data[id].scheduledFor)
          /\ data[id].scheduledFor >= data[id].lastAttempt + Backoff(data[id]))
  /\ [][\A w \in Workers :
          (pc[w] = "retry_update" /\ pc'[w] = "loop") =>
             /\ job[w].id \in processing'
             /\ retryQ'[job[w].id] = Absent
             /\ data' = data]_vars

\* C28: once the worker has resolved a job to Completed or Failed and has
\* left it, the job's data record carries the 7-day retention of
\* MarkCompleted / MarkFailed.
C28_TerminalRetention ==
  \A id \in completed \cup failed :
    (Settled(id) /\ data[id] # NoData) => ttl[id] = "7d"

\* the id has been submitted, is in none of the five containers and no
\* Dequeue or processSMSJob call is at work on it
Lost(id) == id \in used /\ Containers(id) = {} /\ Settled(id)

\* C29: when the GET of Dequeue or dequeueFromRetry finds no record for the
\* id it has moved to Processing, the call takes the id out of Processing and
\* returns to the worker's loop, which goes on; the id is then in none of the
\* five containers, and it stays so.
C29_MissingRecordDropped ==
  [][/\ \A w \in Workers :
          (pc[w] = "fetch" /\ data[jobID[w]] = NoData /\ pc'[w] # pc[w]) =>
             /\ pc'[w] = "loop"
             /\ jobID[w] \notin processing'
             /\ pendingQ'[jobID[w]] = Absent /\ retryQ'[jobID[w]] = Absent
             /\ jobID[w] \notin completed' \cup failed'
             /\ job'[w] = NoData
     /\ \A id \in Ids : Lost(id) => Lost(id)']_vars

\* C30: the sms_stats:pending counter equals the number of ids in the
\* Pending sorted set and is never negative (every MULTI/EXEC is one step, so
\* no state lies inside a transaction).
C30_PendingCounter ==
  /\ stats.pending = Cardinality(Members(pendingQ))
  /\ stats.pending >= 0

====
